---- MODULE Spec2Model ----
(***************************************************************************)
(* clever-snake: the board model, the sliding movement rule, the move      *)
(* generator, the breadth-first search of solve and the path               *)
(* reconstructor of src/src/main.rs.                                       *)
(*                                                                         *)
(* Positions are (x, y) = (column, row), 0-indexed as in the source; a     *)
(* tile grid is a sequence of rows, so the tile at (x, y) is               *)
(* tiles[y + 1][x + 1].  Option<T> is a sequence of length at most one:    *)
(* None is << >> and Some(v) is << v >>.                                   *)
(***************************************************************************)
EXTENDS Integers, Sequences, FiniteSets, TLC

\* Bounds of the model: the grids drawn have at most MaxSide rows, at most
\* MaxSide columns and at most MaxCells cells.
MaxSide == 3
MaxCells == 9

Rock == "Rock"
Cherry == "Cherry"
SnakeBody == "SnakeBody"
SnakeHead == "SnakeHead"
Tile == {Rock, Cherry, SnakeBody, SnakeHead}

Up == "Up"
Down == "Down"
Right == "Right"
Left == "Left"
Dir == {Up, Down, Right, Left}

None == << >>
Some(v) == << v >>

NL == "\n"

----------------------------------------------------------------------------
(* Board::new: trim, lines, chars                                          *)

RECURSIVE TrimStart(_)
TrimStart(s) ==
    IF s # << >> /\ Head(s) = NL THEN TrimStart(Tail(s)) ELSE s

RECURSIVE TrimEnd(_)
TrimEnd(s) ==
    IF s # << >> /\ s[Len(s)] = NL THEN TrimEnd(SubSeq(s, 1, Len(s) - 1)) ELSE s

Trim(s) == TrimEnd(TrimStart(s))

\* str::lines: split at every newline; a final newline opens no empty line.
RECURSIVE LinesFrom(_, _, _)
LinesFrom(s, cur, acc) ==
    IF s = << >>
    THEN IF cur = << >> THEN acc ELSE Append(acc, cur)
    ELSE IF Head(s) = NL
         THEN LinesFrom(Tail(s), << >>, Append(acc, cur))
         ELSE LinesFrom(Tail(s), Append(cur, Head(s)), acc)

Lines(s) == LinesFrom(s, << >>, << >>)

ParseChar(c) == IF c = "r" THEN Rock ELSE Cherry

new(text) ==
    LET ls == Lines(Trim(text))
    IN  [tiles |-> [i \in 1..Len(ls) |->
                      LET line == Trim(ls[i])
                      IN  [j \in 1..Len(line) |-> ParseChar(line[j])]]]

----------------------------------------------------------------------------
(* Board queries                                                           *)

At(b, x, y) == b.tiles[y + 1][x + 1]

Cells(b) ==
    UNION {{<<x, y>> : x \in 0..(Len(b.tiles[y + 1]) - 1)} :
              y \in 0..(Len(b.tiles) - 1)}

cherry_count(b) == Cardinality({c \in Cells(b) : At(b, c[1], c[2]) = Cherry})

\* is_complete that only accepts a board on which the snake has moved.
is_complete_moved(b) ==
    /\ cherry_count(b) = 0
    /\ \E c \in Cells(b) : At(b, c[1], c[2]) = SnakeBody

is_complete(b) == cherry_count(b) = 0

\* The cells of row y (0-indexed) holding tile t, left to right.
RECURSIVE RowScan(_, _, _, _)
RowScan(b, y, x, t) ==
    IF x >= Len(b.tiles[y + 1]) THEN << >>
    ELSE (IF At(b, x, y) = t THEN << <<x, y>> >> ELSE << >>)
         \o RowScan(b, y, x + 1, t)

\* The cells holding tile t in row-major order, from row y on.
RECURSIVE GridScan(_, _, _)
GridScan(b, y, t) ==
    IF y >= Len(b.tiles) THEN << >>
    ELSE RowScan(b, y, 0, t) \o GridScan(b, y + 1, t)

\* starting_positions yielding the cherry cells last to first.
starting_positions_rev(b) ==
    LET sp == GridScan(b, 0, Cherry)
    IN  [i \in 1..Len(sp) |-> sp[Len(sp) + 1 - i]]

\* starting_positions yielding the cells that are not cherries.
starting_positions_rock(b) == GridScan(b, 0, Rock)

starting_positions(b) == GridScan(b, 0, Cherry)

place_snake(b, pos) ==
    [tiles |-> [b.tiles EXCEPT ![pos[2] + 1][pos[1] + 1] = SnakeHead]]

get_snake_head(b) ==
    LET hs == GridScan(b, 0, SnakeHead)
    IN  IF hs = << >> THEN None ELSE Some(Head(hs))

----------------------------------------------------------------------------
(* Board::move_snake                                                       *)

InRange(b, x, y) == y < Len(b.tiles) /\ x < Len(b.tiles[y + 1])

\* new_pos taking a target row too short for the column as a wall.
new_pos_wall(b, sx, sy, dir) ==
    CASE dir = Up    -> IF sy = 0 \/ sx >= Len(b.tiles[sy]) THEN None
                        ELSE Some(<<sx, sy - 1>>)
      [] dir = Down  -> IF sy + 1 >= Len(b.tiles) \/ sx >= Len(b.tiles[sy + 2])
                        THEN None
                        ELSE Some(<<sx, sy + 1>>)
      [] dir = Right -> IF sx + 1 >= Len(b.tiles[sy + 1]) THEN None
                        ELSE Some(<<sx + 1, sy>>)
      [] dir = Left  -> IF sx = 0 THEN None ELSE Some(<<sx - 1, sy>>)

\* new_pos letting Down step past the last row.
new_pos_low(b, sx, sy, dir) ==
    CASE dir = Up    -> IF sy = 0 THEN None ELSE Some(<<sx, sy - 1>>)
      [] dir = Down  -> IF sy + 1 > Len(b.tiles) THEN None
                        ELSE Some(<<sx, sy + 1>>)
      [] dir = Right -> IF sx + 1 >= Len(b.tiles[sy + 1]) THEN None
                        ELSE Some(<<sx + 1, sy>>)
      [] dir = Left  -> IF sx = 0 THEN None ELSE Some(<<sx - 1, sy>>)

\* The match on dir: the cell next to (sx, sy), or None at a boundary.
new_pos(b, sx, sy, dir) ==
    CASE dir = Up    -> IF sy = 0 THEN None ELSE Some(<<sx, sy - 1>>)
      [] dir = Down  -> IF sy + 1 >= Len(b.tiles) THEN None
                        ELSE Some(<<sx, sy + 1>>)
      [] dir = Right -> IF sx + 1 >= Len(b.tiles[sy + 1]) THEN None
                        ELSE Some(<<sx + 1, sy>>)
      [] dir = Left  -> IF sx = 0 THEN None ELSE Some(<<sx - 1, sy>>)

\* The old head cell left as a cherry.
TrailCherry == Cherry

\* The old head cell left as a head.
TrailHead == SnakeHead

\* The tile written over the old head cell when the snake proceeds.
TrailTile == SnakeBody

\* One invocation of move_snake up to its return or its recursive call:
\* kind is "return" (Some(board)), "recurse" (move_snake(board, dir) follows)
\* or "panic" (expect, index out of range, unreachable!).
slide_step(b, dir) ==
    LET h == get_snake_head(b)
    IN  IF h = None THEN [kind |-> "panic", board |-> b]
        ELSE
        LET sx == h[1][1]
            sy == h[1][2]
            np == new_pos(b, sx, sy, dir)
        IN  IF np = None THEN [kind |-> "return", board |-> b]
            ELSE
            LET nx == np[1][1]
                ny == np[1][2]
            IN  IF ~InRange(b, nx, ny) THEN [kind |-> "panic", board |-> b]
                ELSE
                CASE At(b, nx, ny) \in {Rock, SnakeBody} ->
                        [kind |-> "return", board |-> b]
                  [] At(b, nx, ny) = Cherry ->
                        [kind |-> "recurse",
                         board |-> [tiles |->
                            [[b.tiles EXCEPT ![sy + 1][sx + 1] = TrailTile]
                                EXCEPT ![ny + 1][nx + 1] = SnakeHead]]]
                  [] At(b, nx, ny) = SnakeHead ->
                        [kind |-> "panic", board |-> b]

\* move_snake advancing one cell at most: no recursive call.
move_snake_unit(b, dir) ==
    LET s == slide_step(b, dir)
    IN  [panic |-> s.kind = "panic",
         value |-> IF s.kind = "panic" THEN None ELSE Some(s.board)]

\* move_snake returning None for a command that is blocked at once.
move_snake_excl(b, dir) ==
    LET s == slide_step(b, dir)
    IN  CASE s.kind = "recurse" -> [panic |-> FALSE,
                                    value |-> Some(s.board)]
          [] s.kind = "return"  -> [panic |-> FALSE, value |-> None]
          [] s.kind = "panic"   -> [panic |-> TRUE, value |-> None]

\* move_snake(self, dir): panic is TRUE when the call panics, else value is
\* the Option<Board> returned.
RECURSIVE move_snake(_, _)
move_snake(b, dir) ==
    LET s == slide_step(b, dir)
    IN  CASE s.kind = "recurse" -> move_snake(s.board, dir)
          [] s.kind = "return"  -> [panic |-> FALSE, value |-> Some(s.board)]
          [] s.kind = "panic"   -> [panic |-> TRUE, value |-> None]

\* moves trying Left before Right.
DirOrderLeftFirst == <<Up, Down, Left, Right>>

\* moves trying three of the four directions.
DirOrderNoLeft == <<Up, Down, Right>>

\* The order in which moves tries the directions.
DirOrder == <<Up, Down, Right, Left>>

RECURSIVE FilterMapMoves(_, _)
FilterMapMoves(b, ds) ==
    IF ds = << >> THEN << >>
    ELSE move_snake(b, Head(ds)).value \o FilterMapMoves(b, Tail(ds))

moves(b) == FilterMapMoves(b, DirOrder)

moves_panics(b) == \E d \in Dir : move_snake(b, d).panic

----------------------------------------------------------------------------
(* solution: the path reconstructor                                        *)

\* successors following two parent links at a time.
RECURSIVE Successors_skip(_, _)
Successors_skip(b, history) ==
    <<b>> \o (IF b \in DOMAIN history /\ history[b] # None
              THEN IF history[history[b][1]] # None
                   THEN Successors_skip(history[history[b][1]][1], history)
                   ELSE <<history[b][1]>>
              ELSE << >>)

\* successors(Some(&board), |b| history.get(b).and_then(|bp| bp.as_ref()))
RECURSIVE Successors(_, _)
Successors(b, history) ==
    <<b>> \o (IF b \in DOMAIN history /\ history[b] # None
              THEN Successors(history[b][1], history)
              ELSE << >>)

RECURSIVE FilterMapHeads(_)
FilterMapHeads(bs) ==
    IF bs = << >> THEN << >>
    ELSE get_snake_head(Head(bs)) \o FilterMapHeads(Tail(bs))

Reverse(s) == [i \in 1..Len(s) |-> s[Len(s) + 1 - i]]

\* delta with the two vertical directions exchanged.
delta_flipped(p1, p2) ==
    IF p1[1] > p2[1] THEN Left
    ELSE IF p1[1] < p2[1] THEN Right
    ELSE IF p1[2] > p2[2] THEN Down
    ELSE Up

\* delta with the two horizontal directions exchanged.
delta_swapped(p1, p2) ==
    IF p1[1] > p2[1] THEN Right
    ELSE IF p1[1] < p2[1] THEN Left
    ELSE IF p1[2] > p2[2] THEN Up
    ELSE Down

\* The match on one window [(x1, y1), (x2, y2)] of the path.
delta(p1, p2) ==
    IF p1[1] > p2[1] THEN Left
    ELSE IF p1[1] < p2[1] THEN Right
    ELSE IF p1[2] > p2[2] THEN Up
    ELSE Down

\* panic: path[0] on an empty path.
solution_panics(b, history) == FilterMapHeads(Successors(b, history)) = << >>

solution(b, history) ==
    LET path == Reverse(FilterMapHeads(Successors(b, history)))
        pos == path[1]
        deltas == [i \in 1..(Len(path) - 1) |-> delta(path[i], path[i + 1])]
    IN  <<pos, deltas>>

----------------------------------------------------------------------------
(* solve as a state machine                                                *)

VARIABLES
    input,      \* the text handed to solve: a sequence of characters
    board,      \* Board::new(input), no head placed
    starts,     \* what is left of the starting_positions iterator
    p,          \* the start position of the current run (an Option)
    visited,    \* HashMap<Board, Option<Board>> of the current run
    queue,      \* VecDeque<Board> of the current run
    pc,         \* "solve" | "find" | "while" | "done"
    result,     \* the Option<(Position, Vec<Dir>)> solve returns
    runs,       \* history: number of runs started
    insertLog,  \* history: the (key, value) of every visited insertion of the run
    pushLog,    \* history: every board pushed on the queue in the run
    popLog,     \* history: every board popped from the queue in the run
    sboard,     \* play: the board move_snake is working on (self)
    sfrom,      \* play: the board the current command was issued on
    sdir,       \* play: the direction of the current command (an Option)
    steps       \* play: recursive calls made by the current command

solveVars == <<starts, p, visited, queue, result, runs,
               insertLog, pushLog, popLog>>

playVars == <<sboard, sfrom, sdir, steps>>

vars == <<input, board, pc, solveVars, playVars>>

Chars == {"r", "c"}

\* The text of a grid: its rows joined by newlines.
RECURSIVE Join(_)
Join(rows) ==
    IF rows = << >> THEN << >>
    ELSE IF Len(rows) = 1 THEN Head(rows)
    ELSE Head(rows) \o <<NL>> \o Join(Tail(rows))

\* The rectangular grids within the bounds, as text, with or without a final
\* newline; the empty text is the grid with no cells.
Inputs ==
    {<< >>} \cup
    UNION {UNION {{Join(g) \o tl : g \in [1..h -> [1..w -> Chars]]} :
                    tl \in {<< >>, <<NL>>}} :
              <<w, h>> \in {d \in (1..MaxSide) \X (1..MaxSide) :
                                d[1] * d[2] <= MaxCells}}

Init ==
    /\ input \in Inputs
    /\ board = [tiles |-> << >>]
    /\ starts = << >>
    /\ p = None
    /\ visited = << >>
    /\ queue = << >>
    /\ pc = "solve"
    /\ result = None
    /\ runs = 0
    /\ insertLog = << >>
    /\ pushLog = << >>
    /\ popLog = << >>
    /\ sboard = [tiles |-> << >>]
    /\ sfrom = [tiles |-> << >>]
    /\ sdir = None
    /\ steps = 0

\* let board = Board::new(input); board.starting_positions()
SolveBegin ==
    /\ pc = "solve"
    /\ board' = new(input)
    /\ starts' = starting_positions(new(input))
    /\ pc' = "find"
    /\ UNCHANGED <<input, p, visited, queue, result, runs,
                   insertLog, pushLog, popLog, playVars>>

\* insert that records nothing.
insert_lost(vis, k, v) == vis

\* visited.insert(k, v)
insert(vis, k, v) ==
    [x \in (DOMAIN vis) \cup {k} |-> IF x = k THEN v ELSE vis[x]]

\* contains_key that finds nothing.
contains_key_never(vis, k) == FALSE

contains_key(vis, k) == k \in DOMAIN vis

\* push_front in place of push_back.
push_front(q, m) == <<m>> \o q

push_back(q, m) == Append(q, m)

\* find_map takes the next start position: place the snake, set up the run.
StartRun ==
    /\ pc = "find"
    /\ starts # << >>
    /\ LET b == place_snake(board, Head(starts))
       IN  /\ p' = Some(Head(starts))
           /\ visited' = insert(<< >>, b, None)
           /\ queue' = <<b>>
           /\ insertLog' = << <<b, None>> >>
           /\ pushLog' = <<b>>
    /\ starts' = Tail(starts)
    /\ popLog' = << >>
    /\ runs' = runs + 1
    /\ pc' = "while"
    /\ UNCHANGED <<input, board, result, playVars>>

\* find_map runs out of start positions: solve returns None.
NoSolution ==
    /\ pc = "find"
    /\ starts = << >>
    /\ result' = None
    /\ pc' = "done"
    /\ UNCHANGED <<input, board, starts, p, visited, queue, runs,
                   insertLog, pushLog, popLog, playVars>>

\* The popped board is complete: solve returns solution(b, visited).
PopComplete ==
    /\ pc = "while"
    /\ queue # << >>
    /\ is_complete(Head(queue))
    /\ ~solution_panics(Head(queue), visited)
    /\ queue' = Tail(queue)
    /\ popLog' = Append(popLog, Head(queue))
    /\ result' = Some(solution(Head(queue), visited))
    /\ pc' = "done"
    /\ UNCHANGED <<input, board, starts, p, visited, runs, insertLog, pushLog,
                   playVars>>

\* for m in b.moves() { if !visited.contains_key(&m) { insert; push_back } }
RECURSIVE ForMoves(_, _, _)
ForMoves(ms, b, st) ==
    IF ms = << >> THEN st
    ELSE LET m == Head(ms)
         IN  IF ~contains_key(st.visited, m)
             THEN ForMoves(Tail(ms), b,
                     [visited   |-> insert(st.visited, m, Some(b)),
                      queue     |-> push_back(st.queue, m),
                      insertLog |-> Append(st.insertLog, <<m, Some(b)>>),
                      pushLog   |-> Append(st.pushLog, m)])
             ELSE ForMoves(Tail(ms), b, st)

\* The popped board is not complete: its moves are recorded and enqueued.
PopExpand ==
    /\ pc = "while"
    /\ queue # << >>
    /\ ~is_complete(Head(queue))
    /\ ~moves_panics(Head(queue))
    /\ LET b == Head(queue)
           st == ForMoves(moves(b), b,
                    [visited |-> visited, queue |-> Tail(queue),
                     insertLog |-> insertLog, pushLog |-> pushLog])
       IN  /\ visited' = st.visited
           /\ queue' = st.queue
           /\ insertLog' = st.insertLog
           /\ pushLog' = st.pushLog
           /\ popLog' = Append(popLog, b)
    /\ UNCHANGED <<input, board, starts, p, pc, result, runs, playVars>>

\* The queue is empty: the closure returns None and find_map goes on.
RunExhausted ==
    /\ pc = "while"
    /\ queue = << >>
    /\ pc' = "find"
    /\ UNCHANGED <<input, board, starts, p, visited, queue, result, runs,
                   insertLog, pushLog, popLog, playVars>>

Next ==
    \/ SolveBegin
    \/ StartRun
    \/ NoSolution
    \/ PopComplete
    \/ PopExpand
    \/ RunExhausted

Spec == Init /\ [][Next]_vars

TypeOK ==
    /\ pc \in {"solve", "find", "while", "done"}
    /\ Len(result) <= 1
    /\ \A b \in DOMAIN visited : Len(visited[b]) <= 1

----------------------------------------------------------------------------
(* Brute force over command sequences, independent of the search.          *)

\* The board after one command d on b.
Cmd(b, d) == move_snake(b, d).value[1]

CmdStep(S) == S \cup {Cmd(b, d) : b \in S, d \in Dir}

\* The boards some sequence of at most k commands reaches from b.
RECURSIVE ReachWithin(_, _)
ReachWithin(b, k) == IF k = 0 THEN {b} ELSE CmdStep(ReachWithin(b, k - 1))

\* The boards some sequence of commands reaches from b.
RECURSIVE Closure(_)
Closure(S) == IF CmdStep(S) = S THEN S ELSE Closure(CmdStep(S))

Solvable(b) == \E x \in Closure({b}) : cherry_count(x) = 0

\* The least number of commands that clears b, for a solvable b.
RECURSIVE MinClearFrom(_, _)
MinClearFrom(b, k) ==
    IF \E x \in ReachWithin(b, k) : cherry_count(x) = 0 THEN k
    ELSE MinClearFrom(b, k + 1)

MinClear(b) == MinClearFrom(b, 0)

RECURSIVE Replay(_, _)
Replay(b, dirs) ==
    IF dirs = << >> THEN b ELSE Replay(Cmd(b, Head(dirs)), Tail(dirs))

Returned == pc = "done" /\ result # None
ResPos == result[1][1]
ResDirs == result[1][2]
Fresh == new(input)

IndexOf(sq, v) == CHOOSE i \in 1..Len(sq) : sq[i] = v

\* C1: when solve returns (pos, dirs), Len(dirs) is the least number of
\* commands with which any command sequence clears the board placed at pos.
C1_MinimumMoves ==
    Returned => MinClear(place_snake(Fresh, ResPos)) = Len(ResDirs)

C1_Witness ==
    /\ Returned
    /\ Len(ResDirs) >= 3
    /\ \E x \in ReachWithin(place_snake(Fresh, ResPos), Len(ResDirs) + 1) :
          /\ cherry_count(x) = 0
          /\ x # popLog[Len(popLog)]

\* C2: when solve returns (pos, dirs), a fresh parse of the input with the
\* head placed at pos and move_snake applied for each direction of dirs in
\* order has no cherry left.
C2_RoundTrip ==
    Returned => cherry_count(Replay(place_snake(Fresh, ResPos), ResDirs)) = 0

C2_Witness ==
    /\ Returned
    /\ {ResDirs[i] : i \in 1..Len(ResDirs)} = Dir

\* C3: when solve returns (pos, dirs), pos is the first cherry cell in
\* row-major order from which some command sequence clears the grid, whatever
\* the solution lengths of the later cells.
C3_FirstSolvableStart ==
    Returned =>
        LET sp == GridScan(Fresh, 0, Cherry)
        IN  /\ \E i \in 1..Len(sp) : sp[i] = ResPos
            /\ Solvable(place_snake(Fresh, ResPos))
            /\ \A j \in 1..(IndexOf(sp, ResPos) - 1) :
                  ~Solvable(place_snake(Fresh, sp[j]))
            /\ \A j \in 1..(Len(sp) - 1) :
                  \/ sp[j][2] < sp[j + 1][2]
                  \/ sp[j][2] = sp[j + 1][2] /\ sp[j][1] < sp[j + 1][1]

\* A later start position has a strictly shorter solution than the one
\* returned, and an earlier one has none.
C3_Witness ==
    /\ Returned
    /\ LET sp == GridScan(Fresh, 0, Cherry)
       IN  /\ IndexOf(sp, ResPos) > 1
           /\ \E j \in (IndexOf(sp, ResPos) + 1)..Len(sp) :
                 /\ Solvable(place_snake(Fresh, sp[j]))
                 /\ MinClear(place_snake(Fresh, sp[j])) < Len(ResDirs)

\* C4: solve returns None exactly when no cherry cell of the parsed grid is
\* a start from which some command sequence clears the grid.
C4_NoneIffUnsolvable ==
    pc = "done" =>
        (result = None <=>
            \A c \in Cells(Fresh) :
                At(Fresh, c[1], c[2]) = Cherry =>
                    ~Solvable(place_snake(Fresh, c)))

\* None is returned for a grid with cherries, after runs that emptied the queue.
C4_Witness ==
    /\ pc = "done"
    /\ result = None
    /\ runs >= 2
    /\ queue = << >>

NoCherryText == \A i \in 1..Len(input) : input[i] \in {"r", NL}

\* C5: for a grid without a cherry cell, starting_positions is empty, no run
\* is started (nothing placed, enqueued or recorded) and solve returns None.
C5_NoCherryNoRun ==
    (NoCherryText /\ pc # "solve") =>
        /\ starts = << >>
        /\ runs = 0
        /\ p = None
        /\ DOMAIN visited = {}
        /\ queue = << >>
        /\ insertLog = << >> /\ pushLog = << >> /\ popLog = << >>
        /\ pc \in {"find", "done"}
        /\ result = None

C5_Witness ==
    /\ NoCherryText
    /\ Len(input) >= 2
    /\ pc = "done"
    /\ result = None

----------------------------------------------------------------------------
(* Play: place_snake on a cherry cell of the parsed board, then any        *)
(* sequence of move_snake calls, one recursive call of move_snake at a     *)
(* time.                                                                   *)

PlayInit == Init /\ pc = "solve"

\* Board::new(input)
PlayParse ==
    /\ pc = "solve"
    /\ board' = new(input)
    /\ pc' = "place"
    /\ UNCHANGED <<input, solveVars, playVars>>

\* board.place_snake(pos) for a pos of board.starting_positions()
PlayPlace ==
    /\ pc = "place"
    /\ \E i \in 1..Len(starting_positions(board)) :
          sboard' = place_snake(board, starting_positions(board)[i])
    /\ pc' = "command"
    /\ UNCHANGED <<input, board, solveVars, sfrom, sdir, steps>>

\* The call board.move_snake(dir) is made.
PlayCommand ==
    /\ pc = "command"
    /\ \E d \in Dir : sdir' = Some(d)
    /\ sfrom' = sboard
    /\ steps' = 0
    /\ pc' = "slide"
    /\ UNCHANGED <<input, board, solveVars, sboard>>

\* The Cherry arm: the head advances one cell and move_snake calls itself.
SlideRecurse ==
    /\ pc = "slide"
    /\ slide_step(sboard, sdir[1]).kind = "recurse"
    /\ sboard' = slide_step(sboard, sdir[1]).board
    /\ steps' = steps + 1
    /\ UNCHANGED <<input, board, pc, solveVars, sfrom, sdir>>

\* The wall, Rock and SnakeBody arms: move_snake returns the board.
SlideReturn ==
    /\ pc = "slide"
    /\ slide_step(sboard, sdir[1]).kind = "return"
    /\ sboard' = slide_step(sboard, sdir[1]).board
    /\ pc' = "command"
    /\ UNCHANGED <<input, board, solveVars, sfrom, sdir, steps>>

PlayNext ==
    \/ PlayParse
    \/ PlayPlace
    \/ PlayCommand
    \/ SlideRecurse
    \/ SlideReturn

PlaySpec == PlayInit /\ [][PlayNext]_vars

----------------------------------------------------------------------------
(* The slide, stated from the grid instead of from the recursion.          *)

DX(d) == CASE d = Left -> 0 - 1 [] d = Right -> 1 [] OTHER -> 0
DY(d) == CASE d = Up -> 0 - 1 [] d = Down -> 1 [] OTHER -> 0

\* The cell i cells from h in direction d.
Ahead(h, d, i) == <<h[1] + i * DX(d), h[2] + i * DY(d)>>

HeadCells(b) == {c \in Cells(b) : At(b, c[1], c[2]) = SnakeHead}

HeadOf(b) == CHOOSE c \in Cells(b) : At(b, c[1], c[2]) = SnakeHead

\* The cells 1..n after h in direction d are on the grid and hold cherries.
CherryRun(b, h, d, n) ==
    \A i \in 1..n : /\ Ahead(h, d, i) \in Cells(b)
                     /\ At(b, Ahead(h, d, i)[1], Ahead(h, d, i)[2]) = Cherry

\* The length of the maximal run of cherries after h in direction d.
RunLen(b, h, d) ==
    CHOOSE n \in 0..Cardinality(Cells(b)) :
        /\ CherryRun(b, h, d, n)
        /\ ~CherryRun(b, h, d, n + 1)

\* b with the head moved to the end of the run and the run behind it, h
\* included, turned to body.
Chained(b, h, d) ==
    LET n == RunLen(b, h, d)
    IN  [tiles |->
          [r \in 1..Len(b.tiles) |->
            [k \in 1..Len(b.tiles[r]) |->
              IF n > 0 /\ <<k - 1, r - 1>> = Ahead(h, d, n) THEN SnakeHead
              ELSE IF n > 0 /\ \E i \in 0..(n - 1) :
                                  <<k - 1, r - 1>> = Ahead(h, d, i)
                   THEN SnakeBody
                   ELSE b.tiles[r][k]]]]

\* The cell next to the head in direction d is off the grid, a Rock or a
\* SnakeBody.
BlockedBy(b, d) ==
    LET c == Ahead(HeadOf(b), d, 1)
    IN  IF c \notin Cells(b) THEN "wall"
        ELSE IF At(b, c[1], c[2]) = Rock THEN "rock"
        ELSE IF At(b, c[1], c[2]) = SnakeBody THEN "body"
        ELSE "free"

\* C6: move_snake on a board with a placed head at h returns the board whose
\* head is on the last cell of the maximal run of cherries after h in the
\* commanded direction, with h and the run before its last cell turned to
\* SnakeBody and every other cell unchanged.
C6_ChainingUntilBlocked ==
    /\ pc = "command" =>
          \A d \in Dir :
              move_snake(sboard, d) =
                  [panic |-> FALSE,
                   value |-> Some(Chained(sboard, HeadOf(sboard), d))]
    /\ (pc = "command" /\ sdir # None) =>
          /\ sboard = Chained(sfrom, HeadOf(sfrom), sdir[1])
          /\ steps = RunLen(sfrom, HeadOf(sfrom), sdir[1])

\* One command has consumed two cherries, on a board where another run of
\* cherries ends at a rock.
C6_Witness ==
    /\ pc = "command"
    /\ sdir # None
    /\ steps >= 2
    /\ \E d \in Dir :
          /\ RunLen(sboard, HeadOf(sboard), d) = 1
          /\ BlockedBy(Chained(sboard, HeadOf(sboard), d), d) = "rock"

\* C7: when the cell next to the head in the commanded direction is off the
\* grid, a Rock or a SnakeBody, move_snake returns Some of a board equal to
\* the board it was given.
C7_NoOpYieldsInput ==
    /\ pc = "command" =>
          \A d \in Dir :
              BlockedBy(sboard, d) # "free" =>
                  move_snake(sboard, d) =
                      [panic |-> FALSE, value |-> Some(sboard)]
    /\ (pc = "command" /\ sdir # None /\ BlockedBy(sfrom, sdir[1]) # "free") =>
          (sboard = sfrom /\ steps = 0)

\* A command blocked by the snake's body has returned, on a board where a
\* wall and a rock block two other directions.
C7_Witness ==
    /\ pc = "command"
    /\ sdir # None
    /\ BlockedBy(sfrom, sdir[1]) = "body"
    /\ sboard = sfrom
    /\ \E d1, d2 \in Dir : /\ BlockedBy(sboard, d1) = "wall"
                            /\ BlockedBy(sboard, d2) = "rock"

\* C8: the parsed board has no SnakeHead tile, and every board after
\* place_snake, the boards inside a slide included, has exactly one.
C8_OneSnakeHead ==
    /\ pc = "place" => HeadCells(board) = {}
    /\ pc \in {"command", "slide"} => Cardinality(HeadCells(sboard)) = 1

\* A board inside a slide, after the first cell of the slide was entered and
\* before the next one is.
C8_Witness ==
    /\ pc = "slide"
    /\ steps >= 1
    /\ slide_step(sboard, sdir[1]).kind = "recurse"

----------------------------------------------------------------------------
(* The search record                                                       *)

NoDup(sq) == \A i, j \in 1..Len(sq) : i # j => sq[i] # sq[j]

Keys(log) == [i \in 1..Len(log) |-> log[i][1]]

\* C9: within a run every board is inserted into visited at most once,
\* pushed at most once and popped at most once, and no entry of visited is
\* overwritten or removed.
C9_NoRevisit ==
    /\ NoDup(Keys(insertLog))
    /\ NoDup(pushLog)
    /\ NoDup(popLog)
    /\ DOMAIN visited = {insertLog[i][1] : i \in 1..Len(insertLog)}
    /\ \A i \in 1..Len(insertLog) : visited[insertLog[i][1]] = insertLog[i][2]

\* A board that was expanded has an effective move to a board recorded
\* under another parent.
C9_Witness ==
    /\ pc = "while"
    /\ \E i \in 1..Len(popLog) : \E d \in Dir :
          LET b == popLog[i]
              m == Cmd(b, d)
          IN  /\ m # b
              /\ m \in DOMAIN visited
              /\ visited[m] # Some(b)

\* A run has ended: by a complete board, or by an empty queue.
RunOver == runs > 0 /\ pc \in {"find", "done"}

\* C10 as claimed: after a run, visited has strictly more entries than boards
\* were popped in the run.
C10_StrictBound == RunOver => Cardinality(DOMAIN visited) > Len(popLog)

\* C10 as amended: after a run, visited has at least as many entries as
\* boards were popped in the run, and exactly as many when the run ended
\* with an empty queue.
C10_UpperBound ==
    RunOver =>
        /\ Cardinality(DOMAIN visited) >= Len(popLog)
        /\ queue = << >> => Cardinality(DOMAIN visited) = Len(popLog)

\* A run ended by a complete board with boards left in the queue.
C10_Witness ==
    /\ RunOver
    /\ result # None
    /\ queue # << >>
    /\ Cardinality(DOMAIN visited) > Len(popLog)


----------------------------------------------------------------------------
(* The reconstructed path                                                  *)

\* The head positions solution collects, in chronological order, for the
\* complete board that ended the search.
ResPath == Reverse(FilterMapHeads(Successors(popLog[Len(popLog)], visited)))

Abs(n) == IF n < 0 THEN 0 - n ELSE n

\* C11 as claimed: the heads of consecutive boards of the reconstructed
\* sequence differ in exactly one coordinate and by exactly one unit.
C11_UnitSteps ==
    Returned =>
        \A i \in 1..(Len(ResPath) - 1) :
            Abs(ResPath[i][1] - ResPath[i + 1][1])
                + Abs(ResPath[i][2] - ResPath[i + 1][2]) = 1

\* C11 as amended: the heads of consecutive boards of the reconstructed
\* sequence differ in exactly one coordinate, by at least one unit.
C11_AxisSteps ==
    Returned =>
        /\ Len(ResPath) = Len(ResDirs) + 1
        /\ \A i \in 1..(Len(ResPath) - 1) :
              \/ /\ ResPath[i][1] = ResPath[i + 1][1]
                 /\ Abs(ResPath[i][2] - ResPath[i + 1][2]) >= 1
              \/ /\ ResPath[i][2] = ResPath[i + 1][2]
                 /\ Abs(ResPath[i][1] - ResPath[i + 1][1]) >= 1

\* A returned path with a two-cell hop and a one-cell hop.
C11_Witness ==
    /\ Returned
    /\ \E i, j \in 1..(Len(ResPath) - 1) :
          /\ Abs(ResPath[i][1] - ResPath[i + 1][1])
                + Abs(ResPath[i][2] - ResPath[i + 1][2]) = 2
          /\ Abs(ResPath[j][1] - ResPath[j + 1][1])
                + Abs(ResPath[j][2] - ResPath[j + 1][2]) = 1


----------------------------------------------------------------------------
(* Progress of a slide and of the tiles                                    *)

\* C12: a slide makes at most as many cherry-consuming steps as the grid has
\* cells: every step takes one cherry off the board the command was issued
\* on, no step makes a cell a Cherry, and a call in progress either returns
\* or recurses.
C12_SlideBounded ==
    (pc \in {"slide", "command"} /\ sdir # None) =>
        /\ steps <= Cardinality(Cells(sfrom))
        /\ cherry_count(sboard) + steps = cherry_count(sfrom)
        /\ \A c \in Cells(sboard) :
              At(sboard, c[1], c[2]) = Cherry => At(sfrom, c[1], c[2]) = Cherry
        /\ pc = "slide" => slide_step(sboard, sdir[1]).kind \in {"return", "recurse"}

\* A slide has returned after consuming every cherry but one of a board.
C12_Witness ==
    /\ pc = "command"
    /\ sdir # None
    /\ steps >= 2
    /\ cherry_count(sfrom) = steps + 1

\* The tiles of next are those of cur moved forward along
\* Cherry -> SnakeHead -> SnakeBody, or left alone.
Forward(cur, next) ==
    /\ Cells(next) = Cells(cur)
    /\ \A c \in Cells(cur) :
          LET t == At(cur, c[1], c[2])
              u == At(next, c[1], c[2])
          IN  /\ t = Rock => u = Rock
              /\ t = SnakeBody => u = SnakeBody
              /\ t = SnakeHead => u \in {SnakeHead, SnakeBody}
              /\ t = Cherry => u \in {Cherry, SnakeHead}
    /\ cherry_count(next) <= cherry_count(cur)

\* A step after placement moves the tiles of the board forward.
ForwardStep == pc \in {"command", "slide"} => Forward(sboard, sboard')

\* C14: after placement the tiles change only forward along
\* Cherry -> SnakeHead -> SnakeBody: a Rock stays Rock, a SnakeBody stays
\* SnakeBody, no cell becomes a Cherry and the cherry count never increases.
C14_TilesForward == [][ForwardStep]_vars

\* The head is walled in by its own body and by rocks or walls: cells it
\* occupied block it for good.
C14_Witness ==
    /\ pc = "command"
    /\ sdir # None
    /\ \E d \in Dir : BlockedBy(sboard, d) = "body"
    /\ \A d \in Dir : BlockedBy(sboard, d) # "free"
    /\ cherry_count(sboard) > 0


----------------------------------------------------------------------------
(* Parent links                                                            *)

\* C13: every entry m -> b of visited is one effective command: m differs
\* from b, m is move_snake(b, d) for exactly one direction d, m has fewer
\* cherries than b, the heads of b and m share a row or a column, and the
\* direction solution derives from the two heads is that d.
C13_LinkIsOneCommand ==
    \A m \in DOMAIN visited :
        visited[m] # None =>
            LET b == visited[m][1]
                hb == HeadOf(b)
                hm == HeadOf(m)
            IN  /\ m # b
                /\ Cardinality({d \in Dir : move_snake(b, d).value = Some(m)}) = 1
                /\ cherry_count(m) < cherry_count(b)
                /\ (hb[1] = hm[1] \/ hb[2] = hm[2])
                /\ move_snake(b, delta(hb, hm)).value = Some(m)

\* A board whose four moves were generated, two of them without effect, has
\* its effective moves recorded under it, in all four directions overall.
C13_Witness ==
    /\ pc = "while"
    /\ \E b \in DOMAIN visited :
          /\ Cardinality({d \in Dir : Cmd(b, d) = b}) = 2
          /\ Cardinality({m \in DOMAIN visited : visited[m] = Some(b)}) = 2
    /\ {delta(HeadOf(visited[m][1]), HeadOf(m)) :
            m \in {x \in DOMAIN visited : visited[x] # None}} = Dir

----------------------------------------------------------------------------
(* Termination                                                             *)

\* No run on the grid of b can pop more boards than there are boards over
\* that grid: a head cell and a set of cherries eaten.
BoardsBound(b) == Cardinality(Cells(b)) * 2 ^ cherry_count(b)

\* A measure of the work solve has left: the start positions to try, each
\* worth more than one whole run, and the pops the current run has left.
Rank ==
    CASE pc = "solve" ->
            (Cardinality(Cells(Fresh)) + 1) * (BoardsBound(Fresh) + 2) + 2
      [] pc = "find"  -> Len(starts) * (BoardsBound(board) + 2) + 1
      [] pc = "while" -> Len(starts) * (BoardsBound(board) + 2) + 2
                            + (BoardsBound(board) - Len(popLog))
      [] OTHER        -> 0

\* solve has returned, or its next step can be taken without a panic.
NotStuck ==
    (pc = "while" /\ queue # << >>) =>
        IF is_complete(Head(queue))
        THEN ~solution_panics(Head(queue), visited)
        ELSE ~moves_panics(Head(queue))

\* The measure is a natural number, and the pops of the run are within the
\* bound.
Bounded == Rank >= 0 /\ (pc # "solve" => Len(popLog) <= BoardsBound(board))

\* A step of solve lowers the measure, and starts a run only when the queue
\* of the run before is empty.
TerminationStep ==
    /\ Rank' < Rank
    /\ runs' # runs => (queue = << >> /\ pc = "find")

\* C15: every run ends after finitely many pops, by a complete board or by
\* an empty queue, so solve returns, and a run has finished before the next
\* start position is tried: each step of solve lowers a measure that is
\* never negative, and solve is never stuck before it returns.
C15_Terminates == [](NotStuck /\ Bounded) /\ [][TerminationStep]_vars

\* solve has returned after a run that was exhausted and a run of several
\* pops that reached a complete board.
C15_Witness ==
    /\ pc = "done"
    /\ runs >= 2
    /\ result # None
    /\ Len(popLog) >= 4


----------------------------------------------------------------------------
(* Internal failures                                                       *)

\* C16: during solve on a rectangular grid every start position is a cell of
\* the board, every board in the queue has a placed head, no move_snake call
\* on it panics (no missing head, no SnakeHead in the next cell, no index out
\* of range), and solution finds a non-empty path for the complete board.
C16_NoInternalFailure ==
    /\ \A i \in 1..Len(starts) : starts[i] \in Cells(board)
    /\ \A i \in 1..Len(queue) :
          /\ get_snake_head(queue[i]) # None
          /\ \A d \in Dir : ~move_snake(queue[i], d).panic
    /\ (pc = "while" /\ queue # << >> /\ is_complete(Head(queue))) =>
          FilterMapHeads(Successors(Head(queue), visited)) # << >>
    /\ Returned => (Len(ResPath) >= 1 /\ ResPos = ResPath[1])

\* solve has returned a path that visits the first and the last cell of a
\* grid of three rows: commands were tried at every wall.
C16_Witness ==
    /\ Returned
    /\ Len(board.tiles) = 3
    /\ \E i, j \in 1..Len(ResPath) :
          /\ ResPath[i] = <<0, 0>>
          /\ ResPath[j] = <<Len(board.tiles[1]) - 1, 2>>


----------------------------------------------------------------------------
(* The move generator                                                      *)

\* C17: moves yields exactly four boards, the results of the movement rule
\* for Up, Down, Right and Left in that order; a blocked direction
\* contributes a board equal to the input.
C17_FourMovesInOrder ==
    pc = "command" =>
        LET h == HeadOf(sboard)
            ms == moves(sboard)
        IN  /\ Len(ms) = 4
            /\ ms = <<Chained(sboard, h, Up), Chained(sboard, h, Down),
                      Chained(sboard, h, Right), Chained(sboard, h, Left)>>
            /\ \A i \in 1..4 :
                  BlockedBy(sboard, <<Up, Down, Right, Left>>[i]) # "free"
                      => ms[i] = sboard
            /\ ~moves_panics(sboard)

\* A board with two blocked directions and two effective ones, Right and
\* Left, whose results differ.
C17_Witness ==
    /\ pc = "command"
    /\ BlockedBy(sboard, Up) # "free"
    /\ BlockedBy(sboard, Down) # "free"
    /\ BlockedBy(sboard, Right) = "free"
    /\ BlockedBy(sboard, Left) = "free"
    /\ moves(sboard)[1] = sboard
    /\ moves(sboard)[3] # moves(sboard)[4]


----------------------------------------------------------------------------
(* Tie-breaking                                                            *)

\* The order of the directions the claim ranks command sequences by.
TieOrder == <<Up, Down, Right, Left>>

CanClear(b, k) == \E x \in ReachWithin(b, k) : cherry_count(x) = 0

\* The least sequence, in the lexicographic order of TieOrder, among the
\* sequences of k commands that clear b, k being the least such number: the
\* first command is the first of TieOrder after which k - 1 commands suffice.
RECURSIVE LexLeastClear(_, _)
LexLeastClear(b, k) ==
    IF k = 0 THEN << >>
    ELSE LET i == CHOOSE j \in 1..4 :
                    /\ CanClear(Cmd(b, TieOrder[j]), k - 1)
                    /\ \A l \in 1..(j - 1) : ~CanClear(Cmd(b, TieOrder[l]), k - 1)
         IN  <<TieOrder[i]>> \o LexLeastClear(Cmd(b, TieOrder[i]), k - 1)

\* The value solve returns for a text, written as a function of the text
\* alone: the first start position in row-major order that has a clearing
\* sequence, with the lexicographically least shortest one.
SolveOf(text) ==
    LET f  == new(text)
        sp == GridScan(f, 0, Cherry)
        ok == {i \in 1..Len(sp) : Solvable(place_snake(f, sp[i]))}
    IN  IF ok = {} THEN None
        ELSE LET i  == CHOOSE m \in ok : \A n \in ok : m <= n
                 b0 == place_snake(f, sp[i])
             IN  Some(<<sp[i], LexLeastClear(b0, MinClear(b0))>>)

\* C18: for the start position returned, the direction list returned is the
\* lexicographically least, under Up < Down < Right < Left, of the shortest
\* command sequences that clear the grid from that placement; the value
\* returned is a function of the input text, so that two calls of solve on
\* the same input return the same result.
C18_LexLeastSolution ==
    /\ Returned =>
           LET b0 == place_snake(Fresh, ResPos)
           IN  ResDirs = LexLeastClear(b0, MinClear(b0))
    /\ pc = "done" => result = SolveOf(input)

\* The returned list was preferred to another shortest clearing sequence
\* that starts with a later direction.
C18_Witness ==
    /\ Returned
    /\ LET b0 == place_snake(Fresh, ResPos)
           k  == MinClear(b0)
       IN  /\ k >= 2
           /\ Len(ResDirs) = k
           /\ \E j \in 1..4 :
                 /\ TieOrder[j] # ResDirs[1]
                 /\ CanClear(Cmd(b0, TieOrder[j]), k - 1)

----------------------------------------------------------------------------
(* The goal test on the start board.                                       *)

\* The cherry cell of a board that has exactly one.
OnlyCherry(b) == CHOOSE c \in Cells(b) : At(b, c[1], c[2]) = Cherry

\* C19: if the grid has exactly one cherry cell, the board with the head
\* placed on it has no cherry left, and solve returns that cell with an empty
\* direction list from the first run, the start board being the only board
\* ever recorded, enqueued or dequeued: no move is generated.
C19_StartBoardIsGoal ==
    cherry_count(Fresh) = 1 =>
        LET b0 == place_snake(Fresh, OnlyCherry(Fresh))
        IN  /\ cherry_count(b0) = 0
            /\ pc = "find" => runs = 0
            /\ pc \in {"while", "done"} =>
                   /\ runs = 1
                   /\ DOMAIN visited = {b0}
                   /\ insertLog = << <<b0, None>> >>
                   /\ pushLog = <<b0>>
            /\ pc = "while" => queue = <<b0>> /\ popLog = << >>
            /\ pc = "done" =>
                   /\ result = Some(<<OnlyCherry(Fresh), << >> >>)
                   /\ popLog = <<b0>>
                   /\ queue = << >>

\* solve has returned on a grid of several cells whose one cherry is not the
\* first cell.
C19_Witness ==
    /\ pc = "done"
    /\ cherry_count(Fresh) = 1
    /\ Cardinality(Cells(Fresh)) >= 4
    /\ OnlyCherry(Fresh) # <<0, 0>>
    /\ result = Some(<<OnlyCherry(Fresh), << >> >>)

----------------------------------------------------------------------------
(* solve on grids whose rows differ in length                              *)

RaggedCells == 6

RECURSIVE TotalLen(_)
TotalLen(rows) ==
    IF rows = << >> THEN 0 ELSE Len(Head(rows)) + TotalLen(Tail(rows))

\* The texts of the grids of two rows or more, not all of one length, within
\* the bounds. The first and the last row are not empty (trim would remove
\* them); a row between them may be.
RaggedInputs ==
    LET rowset == UNION {[1..n -> Chars] : n \in 0..MaxSide}
        grids  == UNION {[1..h -> rowset] : h \in 2..MaxSide}
    IN  {Join(g) : g \in {g \in grids :
                            /\ g[1] # << >>
                            /\ g[Len(g)] # << >>
                            /\ \E i \in 1..Len(g) : Len(g[i]) # Len(g[1])
                            /\ TotalLen(g) <= RaggedCells}}

RaggedInit ==
    /\ input \in RaggedInputs
    /\ board = [tiles |-> << >>]
    /\ starts = << >>
    /\ p = None
    /\ visited = << >>
    /\ queue = << >>
    /\ pc = "solve"
    /\ result = None
    /\ runs = 0
    /\ insertLog = << >>
    /\ pushLog = << >>
    /\ popLog = << >>
    /\ sboard = [tiles |-> << >>]
    /\ sfrom = [tiles |-> << >>]
    /\ sdir = None
    /\ steps = 0

\* move_snake(b, dir) followed to the call that returns or panics: the board
\* of that call and the number of recursive calls before it.
RECURSIVE slide_end(_, _, _)
slide_end(b, dir, n) ==
    LET s == slide_step(b, dir)
    IN  IF s.kind = "recurse" THEN slide_end(s.board, dir, n + 1)
        ELSE [kind |-> s.kind, board |-> s.board, steps |-> n]

\* b.moves() panics at the first direction of DirOrder whose move_snake
\* indexes out of range: solve is aborted. sfrom, sdir, sboard and steps keep
\* the board popped, the direction, the board of the failing call and the
\* recursive calls made before it.
PopPanic ==
    /\ pc = "while"
    /\ queue # << >>
    /\ ~is_complete(Head(queue))
    /\ moves_panics(Head(queue))
    /\ LET b == Head(queue)
           i == CHOOSE k \in 1..Len(DirOrder) :
                    /\ move_snake(b, DirOrder[k]).panic
                    /\ \A j \in 1..(k - 1) : ~move_snake(b, DirOrder[j]).panic
           e == slide_end(b, DirOrder[i], 0)
       IN  /\ sfrom' = b
           /\ sdir' = Some(DirOrder[i])
           /\ sboard' = e.board
           /\ steps' = e.steps
    /\ queue' = Tail(queue)
    /\ popLog' = Append(popLog, Head(queue))
    /\ pc' = "panic"
    /\ UNCHANGED <<input, board, starts, p, visited, result, runs,
                   insertLog, pushLog>>

RaggedNext ==
    \/ SolveBegin
    \/ StartRun
    \/ NoSolution
    \/ PopComplete
    \/ PopExpand
    \/ RunExhausted
    \/ PopPanic

RaggedSpec == RaggedInit /\ [][RaggedNext]_vars

\* The row the cell after the run of cherries in direction d lies in exists
\* and does not reach the head's column.
ShortRowAhead(b, h, d) ==
    LET c == Ahead(h, d, RunLen(b, h, d) + 1)
    IN  /\ c[2] >= 0
        /\ c[2] < Len(b.tiles)
        /\ c[1] >= Len(b.tiles[c[2] + 1])

\* C20: on a grid whose rows differ in length, for every board solve
\* dequeues, a Right or Left command never fails and a Right command stops at
\* the end of the head's own row as at a wall, whatever the lengths of the
\* other rows; an Up or Down command fails with an index out of range exactly
\* when the row after its run of cherries exists and is too short to hold the
\* head's column, and slides as on a rectangular grid otherwise; solve is
\* aborted by such a failure and by nothing else.
C20_RaggedRows ==
    /\ (pc = "while" /\ queue # << >>) =>
          LET b == Head(queue)
              h == HeadOf(b)
          IN  /\ HeadCells(b) = {h}
              /\ \A d \in {Right, Left} :
                    move_snake(b, d) =
                        [panic |-> FALSE, value |-> Some(Chained(b, h, d))]
              /\ h[1] + 1 = Len(b.tiles[h[2] + 1]) =>
                    move_snake(b, Right).value = Some(b)
              /\ \A d \in {Up, Down} :
                    /\ move_snake(b, d).panic <=> ShortRowAhead(b, h, d)
                    /\ ~ShortRowAhead(b, h, d) =>
                          move_snake(b, d).value = Some(Chained(b, h, d))
    /\ pc = "panic" =>
          /\ sdir # None
          /\ sdir[1] \in {Up, Down}
          /\ steps = RunLen(sfrom, HeadOf(sfrom), sdir[1])
          /\ LET h == HeadOf(sboard)
                 c == Ahead(h, sdir[1], 1)
             IN  /\ c[2] >= 0
                 /\ c[2] < Len(sboard.tiles)
                 /\ c[1] >= Len(sboard.tiles[c[2] + 1])
          /\ result = None
    /\ (pc = "while" /\ queue # << >> /\ is_complete(Head(queue))) =>
          ~solution_panics(Head(queue), visited)

\* solve is aborted in the middle of a slide: a vertical command has consumed
\* a cherry and its next recursive call indexes a row too short; before that
\* a Right command stopped at the end of a row shorter than its neighbour.
C20_Witness ==
    /\ pc = "panic"
    /\ steps >= 1
    /\ \E i \in 1..Len(popLog) :
          LET b == popLog[i]
              h == HeadOf(b)
          IN  /\ h[1] + 1 = Len(b.tiles[h[2] + 1])
              /\ \E r \in 1..Len(b.tiles) : Len(b.tiles[r]) > h[1] + 1

====
